---- MODULE Spec2Model ----
(***************************************************************************)
(* A model of surfify's SphericalUNet (src/surfify/models/unet.py): the    *)
(* construction of the icosahedron hierarchy through the joblib Memory     *)
(* cache, the wiring of the DownBlocks and UpBlocks, and the data flow of  *)
(* forward.  Tensors are abstracted to their shape and to the block that   *)
(* produced them; index tables are abstracted to the geometric call that   *)
(* produced them.                                                          *)
(***************************************************************************)
EXTENDS Integers, Sequences, FiniteSets, TLC

\* ---------------------------------------------------------------- bounds
MaxOrder == 3
MaxDepth == 3
MaxBuilds == 2
MaxPatches == 2
MaxPatchSize == 1
MaxSigma == 1

\* ------------------------------------------------- inputs of the program
InOrders == 0..MaxOrder
Depths == 0..MaxDepth
ConvModes == {"1ring", "2ring", "repa", "3ring"}
UpModes == {"interp", "zeropad", "maxpad", "transpose", "nearest"}
CacheDirs == {"None", "dirA", "dirB"}
InChannels == {1, 2}
StartFilts == {2, 3}
OutChannels == {4}
Batches == {2}

\* ------------------------------------------------------ abstract values
\* A table returned by a geometric primitive, named by the call that made it.
Tab(kind, o, d) == [kind |-> kind, order |-> o, depth |-> d]
None == Tab("None", 0, 0)
NoProv == [kind |-> "None", src |-> 0]
NoLayer == [kind |-> "None", in_feats |-> 0, out_feats |-> 0]
NoTensor == [batch |-> 0, ch |-> 0, nv |-> 0, src |-> "none", at |-> 0]

\* surfify.utils.number_of_ico_vertices: 10 * 4 ** order + 2
number_of_ico_vertices(o) == 10 * (4 ^ o) + 2

\* The number of rows (vertices) a table of the given order indexes.
Rows(t) == number_of_ico_vertices(t.order)

\* ------------------------------------------------------------- the cache
\* The key joblib hashes: the function and its exact arguments.
Key(fn, o, d) == [fn |-> fn, order |-> o, depth |-> d]

\* joblib.Memory(cachedir).cache(func)(args): with no location the function
\* is called each time; otherwise a stored result is returned, and a miss
\* computes and stores.
MemoryCall(dir, st, key) ==
    IF dir = "None"
    THEN [computed |-> TRUE, store |-> st]
    ELSE [computed |-> key \notin st[dir],
          store |-> [st EXCEPT ![dir] = @ \cup {key}]]

\* A function called without going through the cache.
DirectCall(dir, st, key) == [computed |-> TRUE, store |-> st]

icosahedron_cached(dir, st, key) == MemoryCall(dir, st, key)
neighbors_cached(dir, st, key) == MemoryCall(dir, st, key)
neighbors_rec_cached(dir, st, key) == MemoryCall(dir, st, key)
downsample_uncached(dir, st, key) == DirectCall(dir, st, key)
downsample_cached(dir, st, key) == MemoryCall(dir, st, key)
interpolate_cached(dir, st, key) == MemoryCall(dir, st, key)

Cached(dir, st, key) ==
    CASE key.fn = "icosahedron" -> icosahedron_cached(dir, st, key)
      [] key.fn = "neighbors" -> neighbors_cached(dir, st, key)
      [] key.fn = "neighbors_rec" -> neighbors_rec_cached(dir, st, key)
      [] key.fn = "downsample" -> downsample_cached(dir, st, key)
      [] key.fn = "interpolate" -> interpolate_cached(dir, st, key)

VARIABLES
    pc,            \* the position in __init__ / forward
    cfg,           \* the arguments of __init__ (self.in_order, self.depth, ...)
    err,           \* the exception raised, "none" if none
    ico,           \* self.ico: order -> Ico record
    it,            \* the next value the running `for` loop takes
    order,         \* the loop variable `order` of __init__
    idx,           \* the loop variable `idx`
    cnt,           \* the counter `cnt` of the UpBlock loop
    filts,         \* self.filts
    downs,         \* self.down1 .. self.down<depth>
    ups,           \* self.up1 .. self.up<depth - 1>
    sconv,         \* self.sconv
    fc,            \* self.fc
    store,         \* the content of each cache directory
    seen,          \* history: the keys ever called under each cache directory
    calllog,       \* history: the geometric calls of this construction
    prev,          \* history: the constructions completed before this one
    nbuilds,       \* the number of constructions started
    xin,           \* forward: the input tensor
    x,             \* forward: the current tensor
    encoder_outs,  \* forward: encoder_outs
    pooling_outs,  \* forward: pooling_outs
    trace          \* history: the blocks forward has executed

vars == <<pc, cfg, err, ico, it, order, idx, cnt, filts, sconv, downs, ups, fc, store,
          seen, calllog, prev, nbuilds, xin, x, encoder_outs, pooling_outs,
          trace>>

\* The augmentations of src/surfify/augmentation/base.py.
VARIABLES
    apc,           \* the position in run: "idle", "cutout", "done"
    aug,           \* the augmentation object (its fields)
    heap,          \* the arrays in memory: reference -> values by vertex
    arg,           \* the reference the caller passes as `data`
    ret,           \* the reference run returns, 0 before it returns
    pidx,          \* SurfCutOut.run: the patches done so far (loop `idx`)
    orig,          \* history: the values of the caller's array at the call
    covered,       \* history: the vertices of the patches drawn so far
    last,          \* history: the last patch drawn (node, size, indices)
    drawn          \* history: the noise SurfNoise.run has drawn

augvars == <<apc, aug, heap, arg, ret, pidx, orig, covered, last, drawn>>

allvars == <<vars, augvars>>

cachevars == <<store, seen, calllog>>
fwdvars == <<xin, x, encoder_outs, pooling_outs, trace>>

NoCfg == [in_order |-> 0, in_channels |-> 0, out_channels |-> 0, depth |-> 0,
          start_filts |-> 0, conv_mode |-> "", up_mode |-> "",
          cachedir |-> "None", in_vertices |-> 0]

EmptyStore == [d \in CacheDirs \ {"None"} |-> {}]

Init ==
    /\ pc = "new"
    /\ cfg = NoCfg
    /\ err = "none"
    /\ ico = <<>>
    /\ it = 0
    /\ order = 0
    /\ idx = 0
    /\ cnt = 0
    /\ filts = <<>>
    /\ downs = <<>>
    /\ ups = <<>>
    /\ sconv = "None"
    /\ fc = NoLayer
    /\ store = EmptyStore
    /\ seen = EmptyStore
    /\ calllog = <<>>
    /\ prev = {}
    /\ nbuilds = 0
    /\ xin = NoTensor
    /\ x = NoTensor
    /\ encoder_outs = <<>>
    /\ pooling_outs = <<>>
    /\ trace = <<>>
    /\ apc = "idle"
    /\ aug = [kind |-> "None"]
    /\ heap = <<>>
    /\ arg = 0
    /\ ret = 0
    /\ pidx = 0
    /\ orig = <<>>
    /\ covered = {}
    /\ last = [node |-> 0, size |-> 0, indices |-> {}]
    /\ drawn = <<>>

\* --------------------------------------------------- geometric calls
\* Run the calls `keys` in order through the cache of directory `dir`.
RECURSIVE RunCalls(_, _, _)
RunCalls(dir, keys, m) ==
    IF keys = <<>> THEN m
    ELSE LET k == Head(keys)
             r == Cached(dir, m.store, k)
             fresh == IF dir = "None" THEN TRUE ELSE k \notin m.seen[dir]
         IN RunCalls(dir, Tail(keys),
                [store |-> r.store,
                 seen |-> IF dir = "None" THEN m.seen
                          ELSE [m.seen EXCEPT ![dir] = @ \cup {k}],
                 log |-> Append(m.log, [key |-> k, computed |-> r.computed,
                                        fresh |-> fresh])])

DoCalls(keys) ==
    LET m == RunCalls(cfg.cachedir, keys,
                      [store |-> store, seen |-> seen, log |-> calllog])
    IN /\ store' = m.store
       /\ seen' = m.seen
       /\ calllog' = m.log

\* ------------------------------------------------------------- __init__
\* Lines 107-120: the fields set before the first loop.
SphericalUNet_init(a) ==
    /\ cfg' = [in_order |-> a.in_order, in_channels |-> a.in_channels,
               out_channels |-> a.out_channels, depth |-> a.depth,
               start_filts |-> a.start_filts, conv_mode |-> a.conv_mode,
               up_mode |-> a.up_mode, cachedir |-> a.cachedir,
               in_vertices |-> number_of_ico_vertices(a.in_order)]
    /\ pc' = "ico_loop"
    /\ err' = "none"
    /\ ico' = <<>>
    /\ it' = 1
    /\ order' = 0
    /\ idx' = 0
    /\ cnt' = 0
    /\ filts' = <<>>
    /\ sconv' = "None"
    /\ downs' = <<>>
    /\ ups' = <<>>
    /\ fc' = NoLayer
    /\ calllog' = <<>>
    /\ nbuilds' = nbuilds + 1
    /\ xin' = NoTensor
    /\ x' = NoTensor
    /\ encoder_outs' = <<>>
    /\ pooling_outs' = <<>>
    /\ trace' = <<>>
    /\ UNCHANGED <<store, seen>>

Construct ==
    /\ pc = "new"
    /\ \E in_order \in InOrders, in_channels \in InChannels,
          out_channels \in OutChannels, depth \in Depths,
          start_filts \in StartFilts, conv_mode \in ConvModes,
          up_mode \in UpModes, cachedir \in CacheDirs :
            SphericalUNet_init(
                [in_order |-> in_order, in_channels |-> in_channels,
                 out_channels |-> out_channels, depth |-> depth,
                 start_filts |-> start_filts, conv_mode |-> conv_mode,
                 up_mode |-> up_mode, cachedir |-> cachedir])
    /\ prev' = prev
    /\ UNCHANGED augvars

\* raise: the construction (or the forward pass) stops with the exception.
Raise(e) == pc' = "failed" /\ err' = e

\* Lines 130-147: the convolution neighbours of one order, by conv_mode.
ConvCalls(conv_mode, o) ==
    IF conv_mode = "1ring" THEN <<>>
    ELSE IF conv_mode = "2ring" THEN <<Key("neighbors", o, 2)>>
    ELSE IF conv_mode = "repa" THEN <<Key("neighbors_rec", o, 5)>>
    ELSE <<>>

ConvNeighs(conv_mode, o) ==
    IF conv_mode = "1ring" THEN Tab("neighbors", o, 1)
    ELSE IF conv_mode = "2ring" THEN Tab("neighbors", o, 2)
    ELSE IF conv_mode = "repa" THEN Tab("neighbors_rec", o, 5)
    ELSE None

AnyConvMode(conv_mode) == TRUE

ValidConvMode(conv_mode) ==
    conv_mode = "1ring" \/ conv_mode = "2ring" \/ conv_mode = "repa"

\* Lines 148-151: the Ico record of one order, without its cross-order maps.
Ico(o, conv_neighs) ==
    [order |-> o, vertices |-> Tab("vertices", o, 0),
     triangles |-> Tab("triangles", o, 0),
     neighbor_indices |-> Tab("neighbors", o, 1),
     down_indices |-> None, up_indices |-> None,
     conv_neighbor_indices |-> conv_neighs]

Put(f, k, v) == [j \in DOMAIN f \cup {k} |-> IF j = k THEN v ELSE f[j]]

\* Lines 121-151: one iteration of `for order in range(1, in_order + 1)`.
IcoLoop ==
    /\ pc = "ico_loop"
    /\ it <= cfg.in_order
    /\ order' = it
    /\ it' = it + 1
    /\ DoCalls(<<Key("icosahedron", it, 0), Key("neighbors", it, 1)>>
               \o ConvCalls(cfg.conv_mode, it))
    /\ IF ValidConvMode(cfg.conv_mode)
       THEN /\ ico' = Put(ico, it, Ico(it, ConvNeighs(cfg.conv_mode, it)))
            /\ UNCHANGED <<pc, err>>
       ELSE /\ Raise("ValueError: Unexptected convolution mode.")
            /\ UNCHANGED ico
    /\ UNCHANGED <<cfg, idx, cnt, filts, sconv, downs, ups, fc, prev,
                   nbuilds>>
    /\ UNCHANGED fwdvars
    /\ UNCHANGED augvars

\* Line 152-153: the loop ends; `for order in range(in_order, 1, -1)` starts.
IcoLoopEnd ==
    /\ pc = "ico_loop"
    /\ it > cfg.in_order
    /\ pc' = "down_loop"
    /\ it' = cfg.in_order
    /\ UNCHANGED <<cfg, err, ico, order, idx, cnt, filts, sconv, downs, ups,
                   fc, prev, nbuilds>>
    /\ UNCHANGED cachevars
    /\ UNCHANGED fwdvars
    /\ UNCHANGED augvars

\* Line 153: range(in_order, 1, -1)
DownRangeShort(i) == i > 2

DownRange(i) == i > 1

\* Lines 153-158: one iteration of the downsample loop.
DownLoop ==
    /\ pc = "down_loop"
    /\ DownRange(it)
    /\ order' = it
    /\ it' = it - 1
    /\ IF it \in DOMAIN ico /\ (it - 1) \in DOMAIN ico
       THEN /\ DoCalls(<<Key("downsample", it, 0)>>)
            /\ ico' = [ico EXCEPT ![it].down_indices = Tab("downsample", it, 0)]
            /\ UNCHANGED <<pc, err>>
       ELSE /\ Raise("KeyError")
            /\ UNCHANGED ico
            /\ UNCHANGED cachevars
    /\ UNCHANGED <<cfg, idx, cnt, filts, sconv, downs, ups, fc, prev,
                   nbuilds>>
    /\ UNCHANGED fwdvars
    /\ UNCHANGED augvars

\* Lines 159-160: the loop ends; `for order in range(1, in_order)` starts.
DownLoopEnd ==
    /\ pc = "down_loop"
    /\ ~DownRange(it)
    /\ pc' = "up_loop"
    /\ it' = 1
    /\ UNCHANGED <<cfg, err, ico, order, idx, cnt, filts, sconv, downs, ups,
                   fc, prev, nbuilds>>
    /\ UNCHANGED cachevars
    /\ UNCHANGED fwdvars
    /\ UNCHANGED augvars

\* Lines 160-167: one iteration of the interpolate loop.
UpLoop ==
    /\ pc = "up_loop"
    /\ it < cfg.in_order
    /\ order' = it
    /\ it' = it + 1
    /\ IF it \in DOMAIN ico /\ (it + 1) \in DOMAIN ico
       THEN /\ DoCalls(<<Key("interpolate", it, 0)>>)
            /\ ico' = [ico EXCEPT ![it].up_indices = Tab("interpolate", it, 0)]
            /\ UNCHANGED <<pc, err>>
       ELSE /\ Raise("KeyError")
            /\ UNCHANGED ico
            /\ UNCHANGED cachevars
    /\ UNCHANGED <<cfg, idx, cnt, filts, sconv, downs, ups, fc, prev,
                   nbuilds>>
    /\ UNCHANGED fwdvars
    /\ UNCHANGED augvars

\* Lines 168-169: [in_channels] + [start_filts * 2 ** idx for idx in
\* range(depth)]; element k of the Python list is Filts(...)[k + 1].
FiltsLinear(in_channels, start_filts, depth) ==
    <<in_channels>> \o [k \in 1..depth |-> start_filts * k]

Filts(in_channels, start_filts, depth) ==
    <<in_channels>> \o [k \in 1..depth |-> start_filts * (2 ^ (k - 1))]

\* Lines 171-174.
SConv(conv_mode) == IF conv_mode = "repa" THEN "IcoRePaConv" ELSE "IcoDiNeConv"

\* Lines 168-176: the loop ends; the filters; `for idx in range(depth)` starts.
UpLoopEnd ==
    /\ pc = "up_loop"
    /\ it >= cfg.in_order
    /\ filts' = Filts(cfg.in_channels, cfg.start_filts, cfg.depth)
    /\ sconv' = SConv(cfg.conv_mode)
    /\ pc' = "down_blocks"
    /\ it' = 0
    /\ UNCHANGED <<cfg, err, ico, order, idx, cnt, downs, ups, fc, prev,
                   nbuilds>>
    /\ UNCHANGED cachevars
    /\ UNCHANGED fwdvars
    /\ UNCHANGED augvars

\* ------------------------------------------------------------ the blocks
Conv(layer, in_ch, out_ch, neigh) ==
    [layer |-> layer, in_feats |-> in_ch, out_feats |-> out_ch, neigh |-> neigh]

NoPooling == [neigh |-> None, down |-> None, mode |-> "none"]

\* surfify.nn.IcoPool(down_neigh_indices, down_indices, pool_mode)
IcoPool(down_neigh_indices, down_indices, pool_mode) ==
    [neigh |-> down_neigh_indices, down |-> down_indices, mode |-> pool_mode]

\* DownBlock.__init__, lines 288-301.
DownBlock(conv_layer, in_ch, out_ch, conv_neigh_indices, down_neigh_indices, down_indices, pool_mode, first) ==
    [first |-> first,
     pooling |-> IF ~first
                 THEN IcoPool(down_neigh_indices, down_indices, pool_mode)
                 ELSE NoPooling,
     conv1 |-> Conv(conv_layer, in_ch, out_ch, conv_neigh_indices),
     conv2 |-> Conv(conv_layer, out_ch, out_ch, conv_neigh_indices)]

\* UpBlock.__init__, lines 352-363: the upsampling layer of an up_mode.
UpLayerNoElse(up_mode, in_ch, out_ch, neigh_indices, up_neigh_indices, down_indices) ==
    IF up_mode = "interp" \/ up_mode = "zeropad"
    THEN [kind |-> IF up_mode = "interp" THEN "IcoUpSample"
                   ELSE "IcoFixIndexUpSample",
          in_feats |-> in_ch, out_feats |-> out_ch,
          neigh |-> None, up |-> up_neigh_indices, down |-> None]
    ELSE [kind |-> IF up_mode = "maxpad" THEN "IcoMaxIndexUpSample"
                   ELSE "IcoUpConv",
          in_feats |-> in_ch, out_feats |-> out_ch,
          neigh |-> neigh_indices, up |-> None, down |-> down_indices]

UpLayer(up_mode, in_ch, out_ch, neigh_indices, up_neigh_indices, down_indices) ==
    IF up_mode = "interp"
    THEN [kind |-> "IcoUpSample", in_feats |-> in_ch, out_feats |-> out_ch,
          neigh |-> None, up |-> up_neigh_indices, down |-> None]
    ELSE IF up_mode = "zeropad"
    THEN [kind |-> "IcoFixIndexUpSample", in_feats |-> in_ch,
          out_feats |-> out_ch, neigh |-> None, up |-> up_neigh_indices,
          down |-> None]
    ELSE IF up_mode = "maxpad"
    THEN [kind |-> "IcoMaxIndexUpSample", in_feats |-> in_ch,
          out_feats |-> out_ch, neigh |-> neigh_indices, up |-> None,
          down |-> down_indices]
    ELSE IF up_mode = "transpose"
    THEN [kind |-> "IcoUpConv", in_feats |-> in_ch, out_feats |-> out_ch,
          neigh |-> neigh_indices, up |-> None, down |-> down_indices]
    ELSE [kind |-> "ValueError", in_feats |-> in_ch, out_feats |-> out_ch,
          neigh |-> None, up |-> None, down |-> None]

\* UpBlock.__init__, lines 350-372.
UpBlockConvOut(conv_layer, in_ch, out_ch, conv_neigh_indices, neigh_indices, up_neigh_indices, down_indices, up_mode) ==
    [up_mode |-> up_mode,
     up |-> UpLayer(up_mode, in_ch, out_ch, neigh_indices, up_neigh_indices,
                    down_indices),
     conv1 |-> Conv(conv_layer, out_ch, out_ch, conv_neigh_indices),
     conv2 |-> Conv(conv_layer, out_ch, out_ch, conv_neigh_indices)]

UpBlock(conv_layer, in_ch, out_ch, conv_neigh_indices, neigh_indices, up_neigh_indices, down_indices, up_mode) ==
    [up_mode |-> up_mode,
     up |-> UpLayer(up_mode, in_ch, out_ch, neigh_indices, up_neigh_indices,
                    down_indices),
     conv1 |-> Conv(conv_layer, in_ch, out_ch, conv_neigh_indices),
     conv2 |-> Conv(conv_layer, out_ch, out_ch, conv_neigh_indices)]

\* Line 197.
PoolModeAlwaysMean(up_mode) == "mean"

PoolMode(up_mode) == IF up_mode = "maxpad" THEN "max" ELSE "mean"

\* Lines 186-198: the DownBlock of index idx, built at `o` = in_order - idx.
MakeDownBlockSameOrder(i, o) ==
    DownBlock(sconv, filts[i + 1], filts[i + 2],
              ico[o].conv_neighbor_indices,
              IF i = 0 THEN None ELSE ico[o].neighbor_indices,
              IF i = 0 THEN None ELSE ico[o].down_indices,
              PoolMode(cfg.up_mode),
              i = 0)

MakeDownBlock(i, o) ==
    DownBlock(sconv, filts[i + 1], filts[i + 2],
              ico[o].conv_neighbor_indices,
              IF i = 0 THEN None ELSE ico[o + 1].neighbor_indices,
              IF i = 0 THEN None ELSE ico[o + 1].down_indices,
              PoolMode(cfg.up_mode),
              i = 0)

\* Lines 176-199: one iteration of `for idx in range(depth)`.
DownBlocks ==
    /\ pc = "down_blocks"
    /\ it < cfg.depth
    /\ idx' = it
    /\ it' = it + 1
    /\ order' = cfg.in_order - it
    /\ LET o == cfg.in_order - it
       IN IF o \notin DOMAIN ico \/ (it # 0 /\ (o + 1) \notin DOMAIN ico)
          THEN Raise("KeyError") /\ UNCHANGED downs
          ELSE IF it # 0 /\ ico[o + 1].down_indices = None
          THEN Raise("AttributeError") /\ UNCHANGED downs
          ELSE /\ downs' = Append(downs, MakeDownBlock(it, o))
               /\ UNCHANGED <<pc, err>>
    /\ UNCHANGED <<cfg, ico, cnt, filts, sconv, ups, fc, prev, nbuilds>>
    /\ UNCHANGED cachevars
    /\ UNCHANGED fwdvars
    /\ UNCHANGED augvars

\* Lines 201-202: the loop ends; `for idx in range(depth - 1, 0, -1)` starts.
DownBlocksEnd ==
    /\ pc = "down_blocks"
    /\ it >= cfg.depth
    /\ pc' = "up_blocks"
    /\ cnt' = 1
    /\ it' = cfg.depth - 1
    /\ UNCHANGED <<cfg, err, ico, order, idx, filts, sconv, downs, ups, fc,
                   prev, nbuilds>>
    /\ UNCHANGED cachevars
    /\ UNCHANGED fwdvars
    /\ UNCHANGED augvars

\* Lines 207-215: the UpBlock of index idx, built with the running `order`.
MakeUpBlock(i, o) ==
    UpBlock(sconv, filts[i + 2], filts[i + 1],
            ico[o + 1].conv_neighbor_indices,
            ico[o + 1].neighbor_indices,
            ico[o].up_indices,
            ico[o + 1].down_indices,
            cfg.up_mode)

\* Lines 202-218: one iteration of the UpBlock loop.
UpBlocks ==
    /\ pc = "up_blocks"
    /\ it > 0
    /\ idx' = it
    /\ it' = it - 1
    /\ IF order \notin DOMAIN ico \/ (order + 1) \notin DOMAIN ico
       THEN Raise("KeyError") /\ UNCHANGED <<ups, order, cnt>>
       ELSE IF ico[order].up_indices = None
       THEN Raise("AttributeError") /\ UNCHANGED <<ups, order, cnt>>
       ELSE IF MakeUpBlock(it, order).up.kind = "ValueError"
       THEN /\ Raise("ValueError: Invalid upsampling method.")
            /\ UNCHANGED <<ups, order, cnt>>
       ELSE /\ ups' = Append(ups, MakeUpBlock(it, order))
            /\ order' = order + 1
            /\ cnt' = cnt + 1
            /\ UNCHANGED <<pc, err>>
    /\ UNCHANGED <<cfg, ico, filts, sconv, downs, fc, prev, nbuilds>>
    /\ UNCHANGED cachevars
    /\ UNCHANGED fwdvars
    /\ UNCHANGED augvars

\* Lines 220-222: the loop ends; the final vertex-wise projection.
UpBlocksEnd ==
    /\ pc = "up_blocks"
    /\ it <= 0
    /\ IF Len(filts) < 2
       THEN Raise("IndexError") /\ UNCHANGED fc
       ELSE /\ fc' = [kind |-> "Linear", in_feats |-> filts[2],
                      out_feats |-> cfg.out_channels]
            /\ pc' = "built"
            /\ UNCHANGED err
    /\ UNCHANGED <<cfg, ico, it, order, idx, cnt, filts, sconv, downs, ups,
                   prev, nbuilds>>
    /\ UNCHANGED cachevars
    /\ UNCHANGED fwdvars
    /\ UNCHANGED augvars

BuildStep ==
    \/ IcoLoop
    \/ IcoLoopEnd
    \/ DownLoop
    \/ DownLoopEnd
    \/ UpLoop
    \/ UpLoopEnd
    \/ DownBlocks
    \/ DownBlocksEnd
    \/ UpBlocks
    \/ UpBlocksEnd

\* -------------------------------------------------- the layers' forward
Tensor(batch, ch, nv, src, at) ==
    [batch |-> batch, ch |-> ch, nv |-> nv, src |-> src, at |-> at]

Fail == [ok |-> FALSE, x |-> NoTensor, prov |-> NoProv]
Ok(t, p) == [ok |-> TRUE, x |-> t, prov |-> p]

\* IcoDiNeConv / IcoRePaConv followed by BatchNorm1d and LeakyReLU: in_feats
\* channels on the vertices of the neighbour table to out_feats channels.
ConvForward(c, t) ==
    IF t.ch = c.in_feats /\ t.nv = Rows(c.neigh)
    THEN Ok([t EXCEPT !.ch = c.out_feats], NoProv)
    ELSE Fail

\* IcoPool.forward: the field of order k pooled to order k - 1; max pooling
\* also returns the indices of the maxima.
IcoPoolForward(p, n, t) ==
    IF t.nv = Rows(p.neigh) /\ p.down.order = p.neigh.order /\ p.down.order >= 1
    THEN Ok([t EXCEPT !.nv = number_of_ico_vertices(p.down.order - 1)],
            IF p.mode = "max" THEN [kind |-> "max_pool_indices", src |-> n]
            ELSE NoProv)
    ELSE Fail

\* DownBlock.forward, lines 303-317, of the block self.down<n>.
DownBlockForward(b, n, t) ==
    LET pooled == IF ~b.first THEN IcoPoolForward(b.pooling, n, t)
                  ELSE Ok(t, NoProv)
        c1 == IF pooled.ok THEN ConvForward(b.conv1, pooled.x) ELSE Fail
        c2 == IF c1.ok THEN ConvForward(b.conv2, c1.x) ELSE Fail
    IN IF c2.ok
       THEN [ok |-> TRUE, x |-> [c2.x EXCEPT !.src = "down", !.at = n],
             prov |-> pooled.prov]
       ELSE Fail

\* The upsampling layers' forward: in_feats channels at order k to out_feats
\* channels at order k + 1; IcoMaxIndexUpSample needs the max-pool indices.
UpLayerForward(u, t, max_pool_indices, with_indices) ==
    LET k == IF u.up # None THEN u.up.order ELSE u.down.order - 1
    IN IF /\ t.ch = u.in_feats
          /\ t.nv = number_of_ico_vertices(k)
          /\ (u.kind = "IcoMaxIndexUpSample"
                => with_indices /\ max_pool_indices # NoProv)
          /\ (u.kind # "IcoMaxIndexUpSample" => ~with_indices)
       THEN Ok([t EXCEPT !.ch = u.out_feats,
                         !.nv = number_of_ico_vertices(k + 1)], NoProv)
       ELSE Fail

\* torch.cat((x1, x2), 1)
Cat(t1, t2) ==
    IF t1.batch = t2.batch /\ t1.nv = t2.nv
    THEN Ok([t1 EXCEPT !.ch = t1.ch + t2.ch], NoProv)
    ELSE Fail

\* UpBlock.forward, lines 374-389, of the block self.up<n>.
UpBlockForward(b, n, x1, x2, max_pool_indices) ==
    LET up == IF b.up_mode = "maxpad"
              THEN UpLayerForward(b.up, x1, max_pool_indices, TRUE)
              ELSE UpLayerForward(b.up, x1, NoProv, FALSE)
        cat == IF up.ok THEN Cat(up.x, x2) ELSE Fail
        c1 == IF cat.ok THEN ConvForward(b.conv1, cat.x) ELSE Fail
        c2 == IF c1.ok THEN ConvForward(b.conv2, c1.x) ELSE Fail
    IN [ok |-> c2.ok,
        x |-> IF c2.ok THEN [c2.x EXCEPT !.src = "up", !.at = n] ELSE NoTensor,
        prov |-> NoProv,
        passed |-> IF b.up_mode = "maxpad" THEN max_pool_indices ELSE NoProv,
        upsampled |-> up.x,
        cat |-> cat.x]

\* Lines 240-241: encoder_outs[::-1], pooling_outs[::-1]
NotReversed(s) == s

Reverse(s) == [k \in 1..Len(s) |-> s[Len(s) + 1 - k]]

\* Element k of a Python list (0-based).
PyItem(s, k) == s[k + 1]

\* -------------------------------------------------------------- forward
RaiseFwd(e) == pc' = "fwd_failed" /\ err' = e

\* Line 229: x.size(2) != self.in_vertices
VertexCheckSkipped(t) == FALSE

VertexMismatch(t) == t.nv # cfg.in_vertices

\* Lines 224-234: forward is called on a built model; the vertex check.
ForwardCheck ==
    /\ pc = "built"
    /\ \E batch \in Batches, ch \in InChannels, o \in InOrders :
          LET t == Tensor(batch, ch, number_of_ico_vertices(o), "input", 0)
          IN /\ xin' = t
             /\ x' = t
             /\ IF VertexMismatch(t)
                THEN RaiseFwd("RuntimeError: Input data must be projected")
                ELSE pc' = "fwd_down" /\ UNCHANGED err
    /\ it' = 1
    /\ encoder_outs' = <<>>
    /\ pooling_outs' = <<>>
    /\ trace' = <<>>
    /\ UNCHANGED <<cfg, ico, order, idx, cnt, filts, sconv, downs, ups, fc,
                   prev, nbuilds>>
    /\ UNCHANGED cachevars
    /\ UNCHANGED augvars

\* Lines 234-239: one iteration of `for idx in range(1, self.depth + 1)`.
ForwardDown ==
    /\ pc = "fwd_down"
    /\ it <= cfg.depth
    /\ idx' = it
    /\ it' = it + 1
    /\ LET r == DownBlockForward(downs[it], it, x)
       IN /\ trace' = Append(trace, [blk |-> "down", n |-> it, ok |-> r.ok,
                                     skip |-> NoTensor, prov |-> r.prov,
                                     passed |-> NoProv,
                                     upsampled |-> NoTensor, cat |-> NoTensor,
                                     out |-> r.x])
          /\ IF r.ok
             THEN /\ x' = r.x
                  /\ encoder_outs' = Append(encoder_outs, r.x)
                  /\ pooling_outs' = Append(pooling_outs, r.prov)
                  /\ UNCHANGED <<pc, err>>
             ELSE /\ RaiseFwd("RuntimeError: shape")
                  /\ UNCHANGED <<x, encoder_outs, pooling_outs>>
    /\ UNCHANGED <<cfg, ico, order, cnt, filts, sconv, downs, ups, fc, prev,
                   nbuilds, xin>>
    /\ UNCHANGED cachevars
    /\ UNCHANGED augvars

\* Lines 240-242: both lists are reversed; the UpBlock loop starts.
ForwardReverse ==
    /\ pc = "fwd_down"
    /\ it > cfg.depth
    /\ encoder_outs' = Reverse(encoder_outs)
    /\ pooling_outs' = Reverse(pooling_outs)
    /\ pc' = "fwd_up"
    /\ it' = 1
    /\ UNCHANGED <<cfg, err, ico, order, idx, cnt, filts, sconv, downs, ups,
                   fc, prev, nbuilds, xin, x, trace>>
    /\ UNCHANGED cachevars
    /\ UNCHANGED augvars

\* Lines 242-247: one iteration of `for idx in range(1, self.depth)`.
ForwardUp ==
    /\ pc = "fwd_up"
    /\ it < cfg.depth
    /\ idx' = it
    /\ it' = it + 1
    /\ LET x_up == PyItem(encoder_outs, it)
           max_pool_indices == PyItem(pooling_outs, it - 1)
           r == UpBlockForward(ups[it], it, x, x_up, max_pool_indices)
       IN /\ trace' = Append(trace, [blk |-> "up", n |-> it, ok |-> r.ok,
                                     skip |-> x_up, prov |-> max_pool_indices,
                                     passed |-> r.passed,
                                     upsampled |-> r.upsampled, cat |-> r.cat,
                                     out |-> r.x])
          /\ IF r.ok
             THEN x' = r.x /\ UNCHANGED <<pc, err>>
             ELSE RaiseFwd("RuntimeError: shape") /\ UNCHANGED x
    /\ UNCHANGED <<cfg, ico, order, cnt, filts, sconv, downs, ups, fc, prev,
                   nbuilds, xin, encoder_outs, pooling_outs>>
    /\ UNCHANGED cachevars
    /\ UNCHANGED augvars

\* Lines 250-257: the vertex-wise linear projection.
ForwardFC ==
    /\ pc = "fwd_up"
    /\ it >= cfg.depth
    /\ IF /\ x.batch * x.ch * x.nv = x.batch * cfg.in_vertices * filts[2]
          /\ filts[2] = fc.in_feats
       THEN /\ x' = Tensor(x.batch, cfg.out_channels, cfg.in_vertices, "fc", 0)
            /\ trace' = Append(trace, [blk |-> "fc", n |-> 0, ok |-> TRUE,
                                       skip |-> NoTensor, prov |-> NoProv,
                                       passed |-> NoProv,
                                       upsampled |-> NoTensor, cat |-> x,
                                       out |-> x'])
            /\ pc' = "fwd_done"
            /\ UNCHANGED err
       ELSE /\ RaiseFwd("RuntimeError: shape")
            /\ UNCHANGED <<x, trace>>
    /\ UNCHANGED <<cfg, ico, it, order, idx, cnt, filts, sconv, downs, ups,
                   fc, prev, nbuilds, xin, encoder_outs, pooling_outs>>
    /\ UNCHANGED cachevars
    /\ UNCHANGED augvars

ForwardStep ==
    \/ ForwardCheck
    \/ ForwardDown
    \/ ForwardReverse
    \/ ForwardUp
    \/ ForwardFC

\* A later construction, in the same process or another one: only the cache
\* directories outlive a model.
CacheDepths == {2}

Reconstruct ==
    /\ pc \in {"new", "built", "failed"}
    /\ nbuilds < MaxBuilds
    /\ \E in_order \in InOrders, depth \in CacheDepths,
          conv_mode \in ConvModes, cachedir \in CacheDirs :
            SphericalUNet_init(
                [in_order |-> in_order, in_channels |-> 2,
                 out_channels |-> 4, depth |-> depth, start_filts |-> 8,
                 conv_mode |-> conv_mode, up_mode |-> "interp",
                 cachedir |-> cachedir])
    /\ prev' = IF pc = "new" THEN prev
               ELSE prev \cup {[in_order |-> cfg.in_order,
                                conv_mode |-> cfg.conv_mode,
                                cachedir |-> cfg.cachedir]}
    /\ UNCHANGED augvars

Next == Construct \/ BuildStep \/ ForwardStep

NextCache == Reconstruct \/ BuildStep

CacheSpec == Init /\ [][NextCache]_vars

Spec == Init /\ [][Next]_vars

\* -------------------------------------------------------- augmentations
\* The mesh the augmentations are built on: the icosahedron of order 0, its
\* vertices numbered 0 (a pole), 1..5, 6..10 (the two rings) and 11.
AugVertices == 0..(number_of_ico_vertices(0) - 1)

IcoAdj(v) ==
    IF v = 0 THEN 1..5
    ELSE IF v = 11 THEN 6..10
    ELSE IF v \in 1..5
    THEN LET i == v - 1
         IN {0, 1 + ((i + 1) % 5), 1 + ((i + 4) % 5), 6 + i, 6 + ((i + 4) % 5)}
    ELSE LET i == v - 6
         IN {11, 6 + ((i + 1) % 5), 6 + ((i + 4) % 5), 1 + i, 1 + ((i + 1) % 5)}

\* surfify.utils.neighbors(vertices, triangles, direct_neighbor=True): the
\* row of a vertex holds the vertex itself (ring 0) and its direct neighbours.
neighbors(vs) == [v \in vs |-> {v} \cup IcoAdj(v)]

\* surfify.utils.find_neighbors(start_node, order, neighbors): the start node
\* and the nodes within `order` rings of it.
RECURSIVE find_neighbors(_, _, _)
find_neighbors(start_node, ord, neighs) ==
    IF ord <= 0 THEN {start_node}
    ELSE {start_node}
            \cup UNION {find_neighbors(n, ord - 1, neighs) : n \in neighs[start_node]}

\* The textures the caller passes.
Ones == [v \in AugVertices |-> 1]
Textures == {Ones, [v \in AugVertices |-> v % 3]}

\* The calls of SurfCutOut.run: the caller's field and the replacement_value.
CutOutInputs ==
    {[data |-> Ones, replacement_value |-> 0],
     [data |-> [v \in AugVertices |-> v % 3], replacement_value |-> 5]}

\* Lines 88-89: np.random.randint(low, high) draws from low .. high - 1.
randint(low, high) == low..(high - 1)

RandomSizesInclusive(patch_size, sigma) ==
    (patch_size - sigma)..(patch_size + sigma + 1)

RandomSizes(patch_size, sigma) ==
    randint(patch_size - sigma, patch_size + sigma + 1)

\* Line 92: data[patch_indices] = value, on the array itself.
SetItems(h, ref, indices, value) ==
    [h EXCEPT ![ref] = [v \in DOMAIN @ |-> IF v \in indices THEN value ELSE @[v]]]

\* SurfCutOut.__init__ (lines 61-71) and the call of run on the caller's array.
CutOutCall ==
    /\ apc = "idle"
    /\ \E patch_size \in 0..MaxPatchSize, n_patches \in 0..MaxPatches,
          sigma \in 0..MaxSigma, in \in CutOutInputs :
            /\ aug' = [kind |-> "SurfCutOut", vertices |-> AugVertices,
                       neighs |-> neighbors(AugVertices),
                       patch_size |-> patch_size, n_patches |-> n_patches,
                       sigma |-> sigma,
                       replacement_value |-> in.replacement_value]
            /\ heap' = [r \in {1} |-> in.data]
            /\ orig' = in.data
    /\ arg' = 1
    /\ ret' = 0
    /\ pidx' = 0
    /\ apc' = "cutout"
    /\ UNCHANGED <<covered, last, drawn>>
    /\ UNCHANGED vars

\* Lines 86-92: one iteration of `for idx in range(self.n_patches)`.
CutOutPatch ==
    /\ apc = "cutout"
    /\ pidx < aug.n_patches
    /\ \E random_node \in randint(0, Cardinality(aug.vertices)),
          random_size \in RandomSizes(aug.patch_size, aug.sigma) :
            LET patch_indices ==
                    find_neighbors(random_node, random_size, aug.neighs)
            IN /\ heap' = SetItems(heap, arg, patch_indices,
                                   aug.replacement_value)
               /\ covered' = covered \cup patch_indices
               /\ last' = [node |-> random_node, size |-> random_size,
                           indices |-> patch_indices]
    /\ pidx' = pidx + 1
    /\ UNCHANGED <<apc, aug, arg, ret, orig, drawn>>
    /\ UNCHANGED vars

\* Line 93: return data.
CutOutReturn ==
    /\ apc = "cutout"
    /\ pidx >= aug.n_patches
    /\ ret' = arg
    /\ apc' = "done"
    /\ UNCHANGED <<aug, heap, arg, pidx, orig, covered, last, drawn>>
    /\ UNCHANGED vars

\* np.random.normal(0, sigma, len(data)): one value per vertex (integers
\* stand for the reals).
NoiseDraws ==
    {[v \in AugVertices |-> IF v % 2 = 0 THEN a ELSE b] : a, b \in {-1, 0, 1}}

\* Line 124: data += noise, on the array itself; line 125: return data.
NoiseAddCopy(h, ref, noise) ==
    [heap |-> [r \in DOMAIN h \cup {ref + 1} |->
                  IF r = ref + 1 THEN [v \in DOMAIN h[ref] |-> h[ref][v] + noise[v]]
                  ELSE h[r]],
     ret |-> ref + 1]

NoiseAdd(h, ref, noise) ==
    [heap |-> [h EXCEPT ![ref] = [v \in DOMAIN @ |-> @[v] + noise[v]]],
     ret |-> ref]

\* SurfNoise.__init__ and run, lines 108-125.
NoiseRun ==
    /\ apc = "idle"
    /\ \E data \in Textures, noise \in NoiseDraws :
          LET r == NoiseAdd([k \in {1} |-> data], 1, noise)
          IN /\ heap' = r.heap
             /\ ret' = r.ret
             /\ orig' = data
             /\ drawn' = noise
    /\ aug' = [kind |-> "SurfNoise"]
    /\ arg' = 1
    /\ apc' = "done"
    /\ UNCHANGED <<pidx, covered, last>>
    /\ UNCHANGED vars

\* A new array allocated beside the caller's.
Alloc(h, values) ==
    LET r == Cardinality(DOMAIN h) + 1
    IN [heap |-> [k \in DOMAIN h \cup {r} |-> IF k = r THEN values ELSE h[k]],
        ret |-> r]

\* IcoDiNeConv with the Gaussian kernel over ring 0 and ring 1 (fixed-point
\* weights, not normalised): the blurred field is a new tensor.
RECURSIVE SumOver(_, _)
SumOver(S, data) ==
    IF S = {} THEN 0
    ELSE LET n == CHOOSE m \in S : TRUE
         IN data[n] + SumOver(S \ {n}, data)

BlurValues(data) ==
    [v \in DOMAIN data |-> 1000 * data[v] + 135 * SumOver(IcoAdj(v), data)]

\* SurfBlur.run, lines 183-189: the convolution of data[None, None], returned
\* as data.numpy().squeeze().
BlurRun ==
    /\ apc = "idle"
    /\ \E data \in Textures :
          LET r == Alloc([k \in {1} |-> data], BlurValues(data))
          IN /\ heap' = r.heap
             /\ ret' = r.ret
             /\ orig' = data
    /\ aug' = [kind |-> "SurfBlur"]
    /\ arg' = 1
    /\ apc' = "done"
    /\ UNCHANGED <<pidx, covered, last, drawn>>
    /\ UNCHANGED vars

\* surfify.utils.rotate_data for a rotation that maps the mesh onto itself
\* (a fifth of a turn about the axis through the vertices 0 and 11): the
\* field resampled at the original vertices, a new array.
Rot(v) ==
    IF v = 0 \/ v = 11 THEN v
    ELSE IF v \in 1..5 THEN 1 + (v % 5)
    ELSE 6 + ((v - 5) % 5)

RotateValues(data) == [v \in DOMAIN data |-> data[Rot(v)]]

\* SurfRotation.run, lines 245-247.
RotationRun ==
    /\ apc = "idle"
    /\ \E data \in Textures :
          LET r == Alloc([k \in {1} |-> data], RotateValues(data))
          IN /\ heap' = r.heap
             /\ ret' = r.ret
             /\ orig' = data
    /\ aug' = [kind |-> "SurfRotation"]
    /\ arg' = 1
    /\ apc' = "done"
    /\ UNCHANGED <<pidx, covered, last, drawn>>
    /\ UNCHANGED vars

AugNext ==
    \/ CutOutCall
    \/ CutOutPatch
    \/ CutOutReturn
    \/ NoiseRun
    \/ BlurRun
    \/ RotationRun

AugSpec == Init /\ [][AugNext]_allvars

\* --------------------------------------------------------------- claims
SupportedConvModes == {"1ring", "2ring", "repa"}
SupportedUpModes == {"interp", "zeropad", "maxpad", "transpose"}
ConvModeError == "ValueError: Unexptected convolution mode."
UpModeError == "ValueError: Invalid upsampling method."
InForward == pc \in {"fwd_down", "fwd_up", "fwd_done", "fwd_failed"}
Built == pc = "built" \/ InForward
UpEntries == {k \in DOMAIN trace : trace[k].blk = "up"}
DownEntries == {k \in DOMAIN trace : trace[k].blk = "down"}

\* C1: forward on an input whose vertex count differs from
\* number_of_ico_vertices(in_order) raises the RuntimeError of the vertex
\* check, and no DownBlock, UpBlock or final projection has executed.
C1_VertexCheckFirst ==
    (InForward /\ xin.nv # number_of_ico_vertices(cfg.in_order))
        => /\ pc = "fwd_failed"
           /\ err = "RuntimeError: Input data must be projected"
           /\ trace = <<>>
           /\ x = xin

C1_Witness ==
    /\ pc = "fwd_failed"
    /\ xin.nv # number_of_ico_vertices(cfg.in_order)
    /\ cfg.depth >= 2
    /\ Len(ups) = cfg.depth - 1

\* C2: a construction with an unsupported up_mode never completes, for every
\* depth >= 1 (depth = 1 included).
C2_UnsupportedUpModeFails ==
    (Built /\ cfg.depth >= 1) => cfg.up_mode \in SupportedUpModes

C4_ConvModeFailsBeforeLayers ==
    (cfg.in_order >= 1 /\ cfg.conv_mode \notin SupportedConvModes)
        => /\ pc \in {"ico_loop", "failed"}
           /\ (pc = "failed" => err = ConvModeError)
           /\ (pc = "ico_loop" => it = 1)
           /\ downs = <<>>
           /\ ups = <<>>
           /\ fc = NoLayer

C4_Witness ==
    /\ pc = "failed"
    /\ err = ConvModeError
    /\ cfg.in_order >= 2
    /\ cfg.depth >= 2
    /\ cfg.up_mode \in SupportedUpModes

\* C5: after a successful construction with in_order >= 1, self.ico has the
\* keys 1..in_order; down_indices is set exactly at the orders 2..in_order,
\* up_indices exactly at the orders 1..in_order-1, and every entry has its
\* neighbor_indices and conv_neighbor_indices.
C5_MeshHierarchy ==
    (Built /\ cfg.in_order >= 1)
        => /\ DOMAIN ico = 1..cfg.in_order
           /\ \A o \in DOMAIN ico :
                /\ ico[o].order = o
                /\ (ico[o].down_indices # None) <=> (o >= 2)
                /\ (ico[o].down_indices # None)
                      => ico[o].down_indices = Tab("downsample", o, 0)
                /\ (ico[o].up_indices # None) <=> (o <= cfg.in_order - 1)
                /\ (ico[o].up_indices # None)
                      => ico[o].up_indices = Tab("interpolate", o, 0)
                /\ ico[o].neighbor_indices = Tab("neighbors", o, 1)
                /\ ico[o].conv_neighbor_indices # None
                /\ ico[o].conv_neighbor_indices.order = o

C5_Witness ==
    /\ pc = "built"
    /\ cfg.in_order = 3
    /\ ico[1].down_indices = None
    /\ ico[3].up_indices = None
    /\ ico[2].down_indices # None
    /\ ico[2].up_indices # None

\* C6: for 1 <= depth <= in_order a built model has depth DownBlocks and
\* depth - 1 UpBlocks; DownBlock i convolves at order in_order-i+1, only
\* DownBlock 1 skips pooling, DownBlock i >= 2 pools with the neighbours and
\* down indices of order in_order-i+2; UpBlock j convolves at order
\* in_order-depth+j+1, with the up indices of order in_order-depth+j and the
\* neighbours / down indices of order in_order-depth+j+1; no table handed to
\* a pooling or upsampling layer is absent.
C6_BlocksWired ==
    (Built /\ 1 <= cfg.depth /\ cfg.depth <= cfg.in_order)
        => /\ Len(downs) = cfg.depth
           /\ Len(ups) = cfg.depth - 1
           /\ \A i \in 1..Len(downs) :
                LET o == cfg.in_order - i + 1
                IN /\ downs[i].conv1.neigh = ConvNeighs(cfg.conv_mode, o)
                   /\ downs[i].conv2.neigh = ConvNeighs(cfg.conv_mode, o)
                   /\ downs[i].first <=> (i = 1)
                   /\ (i = 1) => downs[i].pooling = NoPooling
                   /\ (i >= 2) =>
                        /\ downs[i].pooling.neigh = Tab("neighbors", o + 1, 1)
                        /\ downs[i].pooling.down = Tab("downsample", o + 1, 0)
           /\ \A j \in 1..Len(ups) :
                LET o == cfg.in_order - cfg.depth + j
                IN /\ ups[j].conv1.neigh = ConvNeighs(cfg.conv_mode, o + 1)
                   /\ ups[j].conv2.neigh = ConvNeighs(cfg.conv_mode, o + 1)
                   /\ (cfg.up_mode \in {"interp", "zeropad"})
                        => ups[j].up.up = Tab("interpolate", o, 0)
                   /\ (cfg.up_mode \in {"maxpad", "transpose"})
                        => /\ ups[j].up.neigh = Tab("neighbors", o + 1, 1)
                           /\ ups[j].up.down = Tab("downsample", o + 1, 0)

C6_Witness ==
    /\ pc = "built"
    /\ cfg.in_order = 3
    /\ cfg.depth = 3
    /\ cfg.up_mode = "maxpad"
    /\ Len(ups) = 2

\* C7: in forward every DownBlock runs, in order, before any UpBlock, and
\* UpBlock j receives as skip connection the output of DownBlock depth-j and
\* as max-pool indices those returned by DownBlock depth-j+1.
C7_SkipWiring ==
    InForward
        => /\ \A k \in DownEntries : trace[k].n = k /\ k <= cfg.depth
           /\ \A k \in UpEntries :
                LET j == trace[k].n
                IN /\ k = cfg.depth + j
                   /\ 1 <= j /\ j <= cfg.depth - 1
                   /\ \A i \in 1..cfg.depth :
                        trace[i].blk = "down" /\ trace[i].ok
                   /\ trace[k].skip = trace[cfg.depth - j].out
                   /\ trace[k].skip.src = "down"
                   /\ trace[k].skip.at = cfg.depth - j
                   /\ trace[k].prov = trace[cfg.depth - j + 1].prov
                   /\ (cfg.up_mode = "maxpad")
                        => trace[k].prov.src = cfg.depth - j + 1

C7_Witness ==
    /\ pc = "fwd_done"
    /\ cfg.depth = 3
    /\ cfg.up_mode = "maxpad"
    /\ Cardinality(UpEntries) = 2

\* C8 (as claimed): the concatenated tensor of an UpBlock has in_ch of the
\* decoder block plus the encoder's channel count, and the first convolution
\* takes that many input channels.
C8_CatIsInChPlusSkip ==
    \A j \in DOMAIN ups :
        LET in_ch == ups[j].up.in_feats
            enc_ch == downs[cfg.depth - j].conv2.out_feats
        IN /\ ups[j].conv1.in_feats = in_ch + enc_ch
           /\ \A k \in UpEntries :
                (trace[k].n = j /\ trace[k].cat # NoTensor)
                    => trace[k].cat.ch = in_ch + enc_ch

\* C8 (amended): the concatenated tensor of an UpBlock has out_ch of the
\* decoder block (the channels of the upsampled input) plus the encoder's
\* channel count; that sum is in_ch of the block, the input-channel count of
\* its first convolution, given the filter schedule.
C8_CatIsOutChPlusSkip ==
    \A j \in DOMAIN ups :
        LET b == ups[j]
            i == cfg.depth - j
            enc_ch == downs[i].conv2.out_feats
        IN /\ b.conv1.in_feats = b.up.out_feats + enc_ch
           /\ b.conv1.in_feats = b.up.in_feats
           /\ b.up.in_feats = cfg.start_filts * (2 ^ i)
           /\ b.up.out_feats = cfg.start_filts * (2 ^ (i - 1))
           /\ b.up.out_feats = b.conv2.out_feats
           /\ \A k \in UpEntries :
                (trace[k].n = j)
                    => /\ trace[k].cat # NoTensor
                       /\ trace[k].skip.ch = enc_ch
                       /\ trace[k].upsampled.ch = b.up.out_feats
                       /\ trace[k].cat.ch
                            = trace[k].upsampled.ch + trace[k].skip.ch
                       /\ trace[k].cat.ch = b.conv1.in_feats

C8_Witness ==
    /\ pc = "fwd_done"
    /\ cfg.depth = 3
    /\ \E k \in UpEntries : trace[k].n = 2 /\ trace[k].cat.ch = 2 * cfg.start_filts

\* C9: forward on an input (batch, in_channels, V), V the vertex count of
\* in_order, never fails and returns (batch, out_channels, V); the tensor
\* entering the final projection has start_filts channels at order in_order.
C9_ForwardShape ==
    /\ (pc = "fwd_failed")
          => (xin.ch # cfg.in_channels
                \/ xin.nv # number_of_ico_vertices(cfg.in_order))
    /\ (pc = "fwd_up" /\ it >= cfg.depth)
          => /\ x.ch = cfg.start_filts
             /\ x.nv = number_of_ico_vertices(cfg.in_order)
             /\ x.batch = xin.batch
    /\ (pc = "fwd_done")
          => /\ xin.ch = cfg.in_channels
             /\ xin.nv = number_of_ico_vertices(cfg.in_order)
             /\ x.batch = xin.batch
             /\ x.ch = cfg.out_channels
             /\ x.nv = xin.nv

C9_Witness ==
    /\ pc = "fwd_done"
    /\ cfg.in_order = 3
    /\ cfg.depth = 3
    /\ cfg.up_mode = "maxpad"
    /\ cfg.conv_mode = "repa"
    /\ x.nv = 642

\* C10: every geometric call of a construction goes through the cache: with
\* a cache directory a call is computed exactly when its arguments were never
\* seen under that directory, so a construction repeating the in_order and
\* conv_mode of an earlier one under the same directory computes nothing;
\* with no cache directory every call is computed.
C10_Memoized ==
    /\ \A k \in DOMAIN calllog :
          calllog[k].computed
              <=> (cfg.cachedir = "None" \/ calllog[k].fresh)
    /\ (cfg.cachedir # "None"
          /\ [in_order |-> cfg.in_order, conv_mode |-> cfg.conv_mode,
              cachedir |-> cfg.cachedir] \in prev)
          => \A k \in DOMAIN calllog : ~calllog[k].computed
    /\ (cfg.cachedir = "None")
          => \A k \in DOMAIN calllog : calllog[k].computed

C10_Witness ==
    /\ pc = "built"
    /\ cfg.cachedir = "dirA"
    /\ cfg.in_order = 2
    /\ cfg.conv_mode = "2ring"
    /\ [in_order |-> 2, conv_mode |-> "2ring", cachedir |-> "dirA"] \in prev
    /\ Len(calllog) = 8
    /\ \A k \in DOMAIN calllog : ~calllog[k].computed

\* C12: the pooling mode of a DownBlock is "max" exactly when up_mode is
\* "maxpad" and "mean" otherwise; a DownBlock returns no max-pool indices
\* when it is the first block or pools by mean, and returns them otherwise;
\* so with "maxpad" every UpBlock is handed present indices (those of a
\* DownBlock other than the first) and passes them to its upsampling layer,
\* and with any other up_mode the UpBlock passes no indices to it.
C12_Provenance ==
    /\ \A i \in DOMAIN downs :
          /\ downs[i].first <=> (i = 1)
          /\ ~downs[i].first
                => /\ (downs[i].pooling.mode = "max")
                        <=> (cfg.up_mode = "maxpad")
                   /\ (downs[i].pooling.mode = "mean")
                        <=> (cfg.up_mode # "maxpad")
    /\ \A k \in DownEntries :
          trace[k].ok
              => ((trace[k].prov = NoProv)
                    <=> (downs[trace[k].n].first
                           \/ downs[trace[k].n].pooling.mode = "mean"))
    /\ \A k \in UpEntries :
          /\ (cfg.up_mode = "maxpad")
                => /\ trace[k].prov # NoProv
                   /\ trace[k].prov.kind = "max_pool_indices"
                   /\ trace[k].prov.src >= 2
                   /\ trace[k].passed = trace[k].prov
                   /\ trace[k].ok
          /\ (cfg.up_mode # "maxpad")
                => /\ trace[k].prov = NoProv
                   /\ trace[k].passed = NoProv
                   /\ trace[k].ok

C12_Witness ==
    /\ pc = "fwd_done"
    /\ cfg.up_mode = "maxpad"
    /\ cfg.depth = 3
    /\ \E k \in UpEntries : trace[k].n = 2 /\ trace[k].passed.src = 2
    /\ trace[1].prov = NoProv


\* ------------------------------------------------- claims: augmentations
\* The vertices within r mesh edges of a vertex (breadth first).
RECURSIVE Within(_, _)
Within(node, r) ==
    IF r <= 0 THEN {node}
    ELSE LET B == Within(node, r - 1)
         IN B \cup UNION {IcoAdj(v) : v \in B}

CutOutDone == apc = "done" /\ aug.kind = "SurfCutOut"

OnePatchOnOnes ==
    /\ CutOutDone
    /\ aug.n_patches = 1
    /\ aug.replacement_value = 0
    /\ orig = Ones

Zeroed == {v \in DOMAIN heap[ret] : heap[ret][v] = 0}

SizeInRange ==
    /\ last.size >= aug.patch_size - aug.sigma
    /\ last.size <= aug.patch_size + aug.sigma

C13_FrameEffects ==
    /\ apc = "cutout"
          => /\ DOMAIN heap = {arg}
             /\ \A v \in AugVertices : heap[arg][v] # orig[v] => v \in covered
    /\ CutOutDone
          => /\ ret = arg
             /\ DOMAIN heap = {arg}
             /\ \A v \in AugVertices :
                   heap[arg][v] = IF v \in covered THEN aug.replacement_value
                                  ELSE orig[v]
    /\ (apc = "done" /\ aug.kind = "SurfNoise")
          => /\ ret = arg
             /\ DOMAIN heap = {arg}
             /\ \A v \in AugVertices : heap[arg][v] = orig[v] + drawn[v]
    /\ (apc = "done" /\ aug.kind = "SurfBlur")
          => /\ ret # arg
             /\ ret \in DOMAIN heap
             /\ heap[arg] = orig
             /\ heap[ret] = BlurValues(orig)
    /\ (apc = "done" /\ aug.kind = "SurfRotation")
          => /\ ret # arg
             /\ ret \in DOMAIN heap
             /\ heap[arg] = orig
             /\ heap[ret] = RotateValues(orig)

C13_Witness ==
    /\ CutOutDone
    /\ aug.n_patches = 2
    /\ ret = arg
    /\ heap[arg] # orig
    /\ \E v \in AugVertices : v \notin covered /\ heap[arg][v] = orig[v]
    /\ \E v \in covered : v \notin last.indices

====
